---- MODULE Spec2Model ----
(***************************************************************************)
(* A model of plugins/anno-vep.c: the bcftools plugin that joins a         *)
(* key -> value table (a tab-separated file) onto every transcript of the  *)
(* CSQ INFO field of VEP-annotated records.                                *)
(*                                                                         *)
(* C strings are sequences of one-character strings; a memory buffer is a  *)
(* sequence of bytes in which NUL marks the terminator; a pointer into a   *)
(* buffer is a 1-based offset.                                             *)
(***************************************************************************)
EXTENDS Integers, Sequences, FiniteSets, TLC

VARIABLES
    pc,         \* "start", "ready" (init returned 0), "failed" (init returned -1),
                \* "crashed" (undefined behaviour ended the process), "destroyed"
    file,       \* the mapping file on disk: [exists, bytes]
    out0,       \* the CSQ header record of the output header before init
    out,        \* the CSQ header record of the output header (bcf_hdr_t* out)
    header,     \* the global header pointer: "NULL" or "out"
    items,      \* the global table
    nitems,     \* the global table size
    csq_str,    \* the global buffer bcf_get_info_string fills
    ncsq_str,   \* its allocated size
    cols_tr,    \* the comma-level field list
    cols_csq,   \* the pipe-level field list
    rec_in,     \* the CSQ field of the last record handed to process: [present, val]
    rec_out,    \* the CSQ field of that record when process returned
    trace       \* what the last process call did, per transcript, and its allocation

vars == <<pc, file, out0, out, header, items, nitems, csq_str, ncsq_str,
          cols_tr, cols_csq, rec_in, rec_out, trace>>

----------------------------------------------------------------------------
(* Bytes and strings *)

NUL == "NUL"
TAB == "\t"
NL == "\n"
PIPE == "|"
COMMA == ","
QUOTE == "\""

\* The bytes the model uses, in increasing byte value (ASCII).
AsciiOrder ==
    << "\t", "\n", " ", "\"", ",", "1", "2", ":", "A", "B", "C", "D", "E", "F", "G",
       "N", "O", "Q", "T", "Z", "a", "b", "c", "m", "o", "r", "t", "v", "x", "y",
       "z", "|" >>

Ord == [c \in {AsciiOrder[i] : i \in 1..Len(AsciiOrder)} |->
            CHOOSE i \in 1..Len(AsciiOrder) : AsciiOrder[i] = c]

Min(S) == CHOOSE x \in S : \A y \in S : x <= y

\* The k-th smallest element of a set of integers.
NthOf(S, k) == CHOOSE x \in S : Cardinality({y \in S : y < x}) = k - 1

SeqsUpTo(S, n) == UNION {[1..k -> S] : k \in 0..n}

\* The tokens of s between the occurrences of d, empty ones kept.
Split(s, d) ==
    LET ds == {i \in 1..Len(s) : s[i] = d}
        n == Cardinality(ds) + 1
        lo(k) == IF k = 1 THEN 1 ELSE NthOf(ds, k - 1) + 1
        hi(k) == IF k < n THEN NthOf(ds, k) - 1 ELSE Len(s)
    IN [k \in 1..n |-> SubSeq(s, lo(k), hi(k))]

RECURSIVE Concat(_)
Concat(ss) == IF ss = <<>> THEN <<>> ELSE Head(ss) \o Concat(Tail(ss))

\* strcmp: the sign of the first differing byte, the shorter string first.
RECURSIVE strcmp(_, _)
strcmp(a, b) ==
    IF a = <<>> /\ b = <<>> THEN 0
    ELSE IF a = <<>> THEN -1
    ELSE IF b = <<>> THEN 1
    ELSE IF Ord[Head(a)] < Ord[Head(b)] THEN -1
    ELSE IF Ord[Head(a)] > Ord[Head(b)] THEN 1
    ELSE strcmp(Tail(a), Tail(b))

\* int cmp(const void* a, const void* b)
cmp(item_a, item_b) == strcmp(item_a.key, item_b.key)

\* strstr: the offset of the first occurrence of needle in s, 0 when absent.
strstr(s, needle) ==
    LET hits == {i \in 1..(Len(s) - Len(needle) + 1) :
                    SubSeq(s, i, i + Len(needle) - 1) = needle}
    IN IF hits = {} THEN 0 ELSE Min(hits)

----------------------------------------------------------------------------
(* parse_file *)

alloc_steps == 1000

\* getline over the whole stream: the lines, each with its newline when it has one.
getline(bytes) ==
    LET nl == {i \in 1..Len(bytes) : bytes[i] = NL}
        c == Cardinality(nl)
        lastEnd == IF c = 0 THEN 0 ELSE NthOf(nl, c)
        n == IF lastEnd < Len(bytes) THEN c + 1 ELSE c
        first(k) == IF k = 1 THEN 1 ELSE NthOf(nl, k - 1) + 1
        last(k) == IF k <= c THEN NthOf(nl, k) ELSE Len(bytes)
    IN [k \in 1..n |-> SubSeq(bytes, first(k), last(k))]

\* strtok skips every leading delimiter before it starts a token.
RECURSIVE SkipDelims(_, _)
SkipDelims(s, p) == IF p <= Len(s) /\ s[p] = TAB THEN SkipDelims(s, p + 1) ELSE p

\* strtok(.., "\t") resumed at offset p of the line: the token, or found = FALSE
\* for NULL, and the offset the next call resumes at.
strtok(s, p) ==
    LET b == SkipDelims(s, p)
        tabs == {i \in b..Len(s) : s[i] = TAB}
        e == IF tabs = {} THEN Len(s) + 1 ELSE Min(tabs)
    IN IF b > Len(s)
       THEN [found |-> FALSE, tok |-> <<>>, next |-> b]
       ELSE [found |-> TRUE, tok |-> SubSeq(s, b, e - 1),
             next |-> IF e <= Len(s) THEN e + 1 ELSE e]

\* One iteration of the while loop of parse_file on one line.
ParseLine(line, acc) ==
    LET line_len == Len(line)
        l == IF line[line_len] = NL THEN SubSeq(line, 1, line_len - 1) ELSE line
        key == strtok(l, 1)
        value == strtok(l, key.next)
    IN IF key.found /\ value.found
       THEN [nrecords |-> acc.nrecords + 1,
             alloc |-> IF acc.nrecords + 1 > acc.alloc
                       THEN acc.alloc + alloc_steps ELSE acc.alloc,
             il |-> Append(acc.il, [key |-> key.tok, value |-> value.tok])]
       ELSE acc

RECURSIVE ParseLines(_, _, _)
ParseLines(lines, k, acc) ==
    IF k > Len(lines) THEN acc
    ELSE ParseLines(lines, k + 1, ParseLine(lines[k], acc))

\* int parse_file(const char* filename, item** il_pt): nrecords is the value
\* returned, il the array left in *il_pt (untouched when fopen fails).
parse_file(f, il_before) ==
    IF ~f.exists
    THEN [nrecords |-> 0, alloc |-> 0, il |-> il_before]
    ELSE ParseLines(getline(f.bytes), 1,
                    [nrecords |-> 0, alloc |-> alloc_steps, il |-> <<>>])

----------------------------------------------------------------------------
(* init *)

Marker == <<"F", "o", "r", "m", "a", "t", ":", " ">>

\* if (argc < 3)
TooFewArgs(argc) == argc < 3

\* The check of the table size, letting an empty table through.
TableEmptyNever(n) == n < 0

\* if (nitems < 1)
TableEmpty(n) == n < 1

\* Lines 116-136 of init on the CSQ header record h: the value returned and the
\* record afterwards. oom: realloc returned NULL.
Annotate(h, new_tag, oom) ==
    IF ~h.hrec \/ ~h.has_desc
    THEN [ret |-> 0, hrec |-> h]
    ELSE LET val == h.val
             format == strstr(val, Marker)
             \* format[strlen(format) - 1] = 0 ends the string one byte early
             cut == IF format > 0 THEN SubSeq(val, 1, Len(val) - 1) ELSE val
         IN IF oom
            THEN [ret |-> -1, hrec |-> [h EXCEPT !.val = cut]]
            ELSE [ret |-> 0,
                  hrec |-> [h EXCEPT !.val = cut \o <<PIPE>> \o new_tag \o <<QUOTE>>]]

\* int init(int argc, char** argv, bcf_hdr_t* in, bcf_hdr_t* out)
init(argc, new_tag, oom) ==
    /\ pc = "start"
    /\ IF TooFewArgs(argc)
       THEN /\ pc' = "failed"
            /\ UNCHANGED <<items, nitems, header, out>>
       ELSE LET p == parse_file(file, items)
            IN /\ nitems' = p.nrecords
               /\ items' = p.il
               /\ IF TableEmpty(p.nrecords)
                  THEN /\ pc' = "failed"
                       /\ UNCHANGED <<header, out>>
                  ELSE LET a == Annotate(out, new_tag, oom)
                       IN /\ header' = "out"
                          /\ out' = a.hrec
                          /\ pc' = IF a.ret = 0 THEN "ready" ELSE "failed"
    /\ UNCHANGED <<file, out0, csq_str, ncsq_str, cols_tr, cols_csq,
                   rec_in, rec_out, trace>>

----------------------------------------------------------------------------
(* The field splitter of cols.h *)

NoCols == [n |-> 0, m |-> 0, off |-> <<>>]
NoRec == [present |-> FALSE, val |-> <<>>]
NoTrace == [called |-> FALSE, rewritten |-> FALSE, alloc |-> 0, written |-> 0, tr |-> <<>>]

Ptr(p) == [kind |-> "ptr", ofs |-> p]
Uninit == [kind |-> "uninit", ofs |-> 0]
Dangling(q) == [kind |-> "dangling", ofs |-> q.ofs]

\* The offset of the terminator of the C string at offset p of buf.
StrEnd(buf, p) == Min({i \in p..Len(buf) : buf[i] = NUL})

\* The C string at offset p of buf.
CStr(buf, p) == SubSeq(buf, p, StrEnd(buf, p) - 1)

\* Capacity growth of a field list: doubling until n spans fit.
RECURSIVE Grow(_, _)
Grow(m, n) == IF m >= n THEN m ELSE Grow(IF m = 0 THEN 1 ELSE 2 * m, n)

\* cols_split(line, cols, delim) on the C string at offset p of buf: every
\* delimiter byte becomes a terminator, one span per token; the slots past the
\* new count keep what they held.
cols_split(buf, p, cols, delim) ==
    LET e == StrEnd(buf, p)
        ds == {i \in p..(e - 1) : buf[i] = delim}
        n == Cardinality(ds) + 1
        m == Grow(cols.m, n)
        start(k) == IF k = 1 THEN p ELSE NthOf(ds, k - 1) + 1
    IN [buf |-> [i \in 1..Len(buf) |-> IF i \in ds THEN NUL ELSE buf[i]],
        cols |-> [n |-> n, m |-> m,
                  off |-> [k \in 1..m |->
                             IF k <= n THEN Ptr(start(k))
                             ELSE IF k <= cols.m THEN cols.off[k]
                             ELSE Uninit]]]

\* The spans of a field list after the block they point into was freed.
Invalidate(cols) ==
    [cols EXCEPT !.off = [k \in 1..cols.m |->
                            IF cols.off[k].kind = "ptr" THEN Dangling(cols.off[k])
                            ELSE cols.off[k]]]

----------------------------------------------------------------------------
(* process *)

TranscriptMargin == 1024
KeyIndex == 4

\* bcf_get_info_string(header, rec, "CSQ", &csq_str, &ncsq_str): the length of
\* the string, -1 when the header defines no CSQ, -3 when the record has none.
\* The buffer grows to length + 1 when it is smaller; moved: realloc returned a
\* new block.
bcf_get_info_string(hrec, rec, buf, nbuf, moved) ==
    IF ~hrec.hrec THEN [ret |-> -1, buf |-> buf, nbuf |-> nbuf, moved |-> FALSE]
    ELSE IF ~rec.present THEN [ret |-> -3, buf |-> buf, nbuf |-> nbuf, moved |-> FALSE]
    ELSE LET len == Len(rec.val)
         IN IF nbuf < len + 1
            THEN [ret |-> len, buf |-> rec.val \o <<NUL>>, nbuf |-> len + 1,
                  moved |-> moved /\ nbuf > 0]
            ELSE [ret |-> len,
                  buf |-> rec.val \o <<NUL>> \o SubSeq(buf, len + 2, nbuf),
                  nbuf |-> nbuf, moved |-> FALSE]

\* The check of the length, taking an empty string too.
HasCsqOrEmpty(lcsq_str) == lcsq_str >= 0

\* if (lcsq_str > 0)
HasCsq(lcsq_str) == lcsq_str > 0

\* calloc(1, strlen(csq_str) + 1024 * cols_tr->n), after the comma-level split
AllocSize(buf, n) == (StrEnd(buf, 1) - 1) + TranscriptMargin * n

\* bsearch(&key, items, nitems, sizeof(item), cmp) between l and u: the index
\* (1-based) of the element found, 0 for NULL.
RECURSIVE bsearch(_, _, _, _)
bsearch(key, base, l, u) ==
    IF l >= u THEN 0
    ELSE LET idx == (l + u) \div 2
             c == cmp(key, base[idx + 1])
         IN IF c < 0 THEN bsearch(key, base, l, idx)
            ELSE IF c > 0 THEN bsearch(key, base, idx + 1, u)
            ELSE idx + 1

\* The key read one slot early, from cols_csq->off[3].
GeneIdFourthSlot(cols, buf, ub) ==
    IF KeyIndex > cols.m THEN ub
    ELSE LET p == cols.off[KeyIndex]
         IN IF p.kind = "ptr" THEN [crash |-> FALSE, str |-> CStr(buf, p.ofs)] ELSE ub

\* gene_id = cols_csq->off[4], read as a C string. A slot at or past the
\* allocated capacity, a slot never written and a span into a freed block are
\* undefined reads: their outcome is ub. A slot left by an earlier split still
\* points into csq_str and reads what is there now.
GeneId(cols, buf, ub) ==
    IF KeyIndex + 1 > cols.m THEN ub
    ELSE LET p == cols.off[KeyIndex + 1]
         IN IF p.kind = "ptr" THEN [crash |-> FALSE, str |-> CStr(buf, p.ofs)] ELSE ub

\* The separator test off by one: a comma after the last transcript too.
CommaAfterEvery(i, n) == i < n

\* if (i < cols_tr->n - 1), i counted from 0
CommaAfter(i, n) == i < n - 1

\* The outcomes of an undefined read of a span: the process dies, or the read
\* yields some string.
UBOutcomes(tbl) ==
    {[crash |-> TRUE, str |-> <<>>], [crash |-> FALSE, str |-> <<>>]} \cup
    {[crash |-> FALSE, str |-> tbl[k].key] : k \in 1..Len(tbl)}

\* The undefined reads the loop body makes on the field list cols.
UBChoices(cols, tbl) ==
    IF KeyIndex + 1 > cols.m \/ cols.off[KeyIndex + 1].kind /= "ptr"
    THEN UBOutcomes(tbl)
    ELSE {[crash |-> FALSE, str |-> <<>>]}

\* One iteration of the for loop of process, for transcript i (from 0).
\* st: [buf, cols, new, tr, crashed]; ub: the outcome of an undefined read.
Transcript(st, tr_cols, i, tbl, ntbl, ub) ==
    LET p == tr_cols.off[i + 1].ofs
        transcript == CStr(st.buf, p)
        sp == cols_split(st.buf, p, st.cols, PIPE)
        gene_id == GeneId(sp.cols, sp.buf, ub)
        searched == ~gene_id.crash /\ Len(gene_id.str) > 0
        found == IF searched
                 THEN bsearch([key |-> gene_id.str, value |-> <<>>], tbl, 0, ntbl)
                 ELSE 0
        value == IF found > 0 THEN tbl[found].value ELSE <<>>
        comma == IF CommaAfter(i, tr_cols.n) THEN <<COMMA>> ELSE <<>>
        step == [text |-> transcript, n |-> sp.cols.n, key |-> gene_id.str,
                 searched |-> searched, found |-> found, value |-> value,
                 comma |-> comma /= <<>>]
    IN IF gene_id.crash
       THEN [buf |-> sp.buf, cols |-> sp.cols,
             new |-> st.new \o transcript \o <<PIPE>>,
             tr |-> st.tr, crashed |-> TRUE]
       ELSE [buf |-> sp.buf, cols |-> sp.cols,
             new |-> st.new \o transcript \o <<PIPE>> \o value \o comma,
             tr |-> Append(st.tr, step), crashed |-> FALSE]

\* The for loop of process from transcript i on: every state it can end in.
RECURSIVE Transcripts(_, _, _, _, _)
Transcripts(st, tr_cols, i, tbl, ntbl) ==
    IF i >= tr_cols.n \/ st.crashed THEN {st}
    ELSE LET p == tr_cols.off[i + 1].ofs
             after == cols_split(st.buf, p, st.cols, PIPE).cols
         IN UNION {Transcripts(Transcript(st, tr_cols, i, tbl, ntbl, ub),
                               tr_cols, i + 1, tbl, ntbl) :
                   ub \in UBChoices(after, tbl)}

\* Whether realloc may return a new block for csq_str: it exists and is too small.
MayMove(rec) ==
    IF out.hrec /\ rec.present /\ ncsq_str > 0 /\ ncsq_str < Len(rec.val) + 1
    THEN BOOLEAN ELSE {FALSE}

\* bcf1_t* process(bcf1_t* rec). moved: the realloc of csq_str returned a new
\* block.
process(rec, moved) ==
    /\ pc = "ready"
    /\ LET g == bcf_get_info_string(out, rec, csq_str, ncsq_str, moved)
           old_tr == IF g.moved THEN Invalidate(cols_tr) ELSE cols_tr
           old_csq == IF g.moved THEN Invalidate(cols_csq) ELSE cols_csq
       IN /\ ncsq_str' = g.nbuf
          /\ rec_in' = rec
          /\ IF HasCsq(g.ret)
             THEN LET s == cols_split(g.buf, 1, old_tr, COMMA)
                      size == AllocSize(s.buf, s.cols.n)
                  IN \E st \in Transcripts([buf |-> s.buf, cols |-> old_csq,
                                            new |-> <<>>, tr |-> <<>>,
                                            crashed |-> FALSE],
                                           s.cols, 0, items, nitems) :
                       \* writing past the allocation is undefined: the process
                       \* dies or goes on
                       \E dead \in IF st.crashed THEN {TRUE}
                                   ELSE IF Len(st.new) + 1 > size THEN BOOLEAN
                                   ELSE {FALSE} :
                          /\ csq_str' = st.buf
                          /\ cols_tr' = s.cols
                          /\ cols_csq' = st.cols
                          /\ pc' = IF dead THEN "crashed" ELSE "ready"
                          /\ rec_out' = IF dead THEN rec
                                        ELSE [present |-> TRUE, val |-> st.new]
                          /\ trace' = [called |-> TRUE, rewritten |-> ~dead,
                                       alloc |-> size, written |-> Len(st.new),
                                       tr |-> st.tr]
             ELSE /\ csq_str' = g.buf
                  /\ cols_tr' = old_tr
                  /\ cols_csq' = old_csq
                  /\ pc' = "ready"
                  /\ rec_out' = rec
                  /\ trace' = [called |-> TRUE, rewritten |-> FALSE, alloc |-> 0,
                               written |-> 0, tr |-> <<>>]
    /\ UNCHANGED <<file, out0, out, header, items, nitems>>

\* void destroy(void)
destroy ==
    /\ pc = "ready"
    /\ pc' = "destroyed"
    /\ csq_str' = <<>>
    /\ cols_csq' = NoCols
    /\ cols_tr' = NoCols
    /\ items' = <<>>
    /\ UNCHANGED <<file, out0, out, header, nitems, ncsq_str, rec_in, rec_out, trace>>

----------------------------------------------------------------------------
(* Inputs *)

MaxLoadLines == 2

LongValue == [i \in 1..TranscriptMargin |-> "v"]

Tags == {<<"D">>}
Argcs == {2, 3}

\* Mapping-file lines, without their newline.
LoadRows ==
    { <<"A", TAB, "1">>,
      <<"B", TAB, "2">>,
      <<TAB, "A", TAB, "1">>,
      <<"B", TAB, TAB, "2", TAB, "x">>,
      <<"A">>,
      <<"A", TAB>>,
      <<>> }

FileOf(rows, final_nl) ==
    LET all == Concat([k \in 1..Len(rows) |-> rows[k] \o <<NL>>])
    IN IF final_nl \/ all = <<>> THEN all ELSE SubSeq(all, 1, Len(all) - 1)

NoFile == [exists |-> FALSE, bytes |-> <<>>]

LoadFiles ==
    {NoFile} \cup
    {[exists |-> TRUE, bytes |-> FileOf(rows, nl)] :
        rows \in SeqsUpTo(LoadRows, MaxLoadLines), nl \in BOOLEAN}

NoHrec == [hrec |-> FALSE, has_desc |-> FALSE, val |-> <<>>]
NoDescription == [hrec |-> TRUE, has_desc |-> FALSE, val |-> <<>>]
Desc(val) == [hrec |-> TRUE, has_desc |-> TRUE, val |-> val]

DescFormat == <<QUOTE, "x", " ">> \o Marker \o <<"A", "|", "B", QUOTE>>
DescPlain == <<QUOTE, "x", QUOTE>>
DescBare == Marker \o <<"A">>

Headers == {NoHrec, NoDescription, Desc(DescFormat), Desc(DescPlain), Desc(DescBare)}

InitWith(files, headers) ==
    /\ pc = "start"
    /\ file \in files
    /\ out0 \in headers
    /\ out = out0
    /\ header = "NULL"
    /\ items = <<>>
    /\ nitems = 0
    /\ csq_str = <<>>
    /\ ncsq_str = 0
    /\ cols_tr = NoCols
    /\ cols_csq = NoCols
    /\ rec_in = NoRec
    /\ rec_out = NoRec
    /\ trace = NoTrace

InitLoad == InitWith(LoadFiles, Headers)

NextLoad == \E argc \in Argcs, new_tag \in Tags, oom \in BOOLEAN : init(argc, new_tag, oom)

SpecLoad == InitLoad /\ [][NextLoad]_vars

MaxLines == 2

Rows ==
    { <<"A", TAB, "1">>,
      <<"B", TAB, "2">>,
      <<"G", "E", "N", "E", "1", TAB, "A", "N", "N", "O", "T">>,
      <<"C", TAB>> \o LongValue }

Files ==
    {NoFile} \cup
    {[exists |-> TRUE, bytes |-> FileOf(rows, TRUE)] : rows \in SeqsUpTo(Rows, MaxLines)}

\* The records are read under a header that declares CSQ.
CsqHeaders == {Desc(DescFormat)}

Csq(val) == [present |-> TRUE, val |-> val]

ArityField ==
    << "T", "1", "|", "x", "|", "y", "|", "G", "E", "N", "E", "1", "|", "z", ",",
       "T", "2", "|", "a", "|", "b", "|", "|", "c" >>

Recs ==
    { NoRec,
      Csq(<<>>),
      Csq(<<"|", "|", "|", "|", "B">>),
      Csq(<<"|", "|", "|", "|", "B", ",", "x">>),
      Csq(<<"x">>),
      Csq(<<"|", "|", "|", "|", "Q", ",", "|", "|", "|", "|">>),
      Csq(<<"|", "|", "|", "|", "C">>),
      Csq(<<"x", "|", "y", "y", "A", ",", "z">>),
      Csq(ArityField) }

\* The records in which every transcript has at least five sub-fields.
WellFormed(r) ==
    r.present /\ r.val /= <<>> =>
        \A i \in 1..Len(Split(r.val, COMMA)) :
            Len(Split(Split(r.val, COMMA)[i], PIPE)) >= 5

WellRecs == {r \in Recs : WellFormed(r)}

Init == InitWith(Files, CsqHeaders)

Next ==
    \/ \E argc \in Argcs, new_tag \in Tags, oom \in BOOLEAN : init(argc, new_tag, oom)
    \/ \E rec \in Recs : \E moved \in MayMove(rec) : process(rec, moved)
    \/ destroy

Spec == Init /\ [][Next]_vars

\* The plugin run on records that all have the key sub-field.
NextWell ==
    \/ \E argc \in Argcs, new_tag \in Tags, oom \in BOOLEAN : init(argc, new_tag, oom)
    \/ \E rec \in WellRecs : \E moved \in MayMove(rec) : process(rec, moved)
    \/ destroy

SpecWell == Init /\ [][NextWell]_vars

----------------------------------------------------------------------------
(* What the claims speak of, stated apart from the code's own splitting *)

\* The strings of ss with sep between consecutive ones.
Join(ss, sep) ==
    Concat([k \in 1..Len(ss) |-> IF k < Len(ss) THEN ss[k] \o sep ELSE ss[k]])

\* The text lines of a file, without their line terminators.
TextLines(bytes) ==
    LET ls == Split(bytes, NL)
    IN IF ls[Len(ls)] = <<>> THEN SubSeq(ls, 1, Len(ls) - 1) ELSE ls

\* The non-empty tab-separated tokens of a line.
Tokens(line) == SelectSeq(Split(line, TAB), LAMBDA t : t /= <<>>)

\* The rows of the file that give a key and a value.
ValidRowCount(f) ==
    IF ~f.exists THEN 0
    ELSE Cardinality({k \in 1..Len(TextLines(f.bytes)) :
                         Len(Tokens(TextLines(f.bytes)[k])) >= 2})

\* The entries the file gives when a column is a position: a line gives
\* (first column, second column) when both are there and not empty.
RECURSIVE ColumnEntries(_, _)
ColumnEntries(lines, k) ==
    IF k > Len(lines) THEN <<>>
    ELSE LET c == Split(lines[k], TAB)
         IN IF Len(c) >= 2 /\ c[1] /= <<>> /\ c[2] /= <<>>
            THEN <<[key |-> c[1], value |-> c[2]]>> \o ColumnEntries(lines, k + 1)
            ELSE ColumnEntries(lines, k + 1)

TableKeys == {items[k].key : k \in 1..Len(items)}

Gene1 == <<"G", "E", "N", "E", "1">>
Annot == <<"A", "N", "N", "O", "T">>

\* process returned after rewriting the CSQ field of the record.
Rewrote == pc = "ready" /\ trace.called /\ trace.rewritten

\* transcript t has a key sub-field (a fifth sub-field) that is empty or no key
\* of the table.
NoMatch(t) ==
    LET f == Split(t, PIPE)
    IN Len(f) >= 5 /\ (f[5] = <<>> \/ f[5] \notin TableKeys)

\* What the loop emitted for transcript i of the last record.
Emitted(i) ==
    trace.tr[i].text \o <<PIPE>> \o trace.tr[i].value
        \o (IF trace.tr[i].comma THEN <<COMMA>> ELSE <<>>)

----------------------------------------------------------------------------
(* The claims *)

\* C1: lookup correctness for any row order of the mapping file: for every
\* transcript of a rewritten record whose key sub-field is non-empty, when some
\* table row has that key the search finds a row with that key and appends its
\* value, and when no row has it nothing is appended.
C1_LookupAnyOrder ==
    Rewrote =>
        \A i \in 1..Len(trace.tr) :
            LET f == Split(trace.tr[i].text, PIPE)
                e == trace.tr[i]
            IN (Len(f) >= 5 /\ f[5] /= <<>>) =>
                  IF f[5] \in TableKeys
                  THEN /\ e.found > 0
                       /\ items[e.found].key = f[5]
                       /\ e.value = items[e.found].value
                  ELSE e.found = 0 /\ e.value = <<>>

\* C2: table sort invariant: once init has returned success, after any sequence
\* of process calls, adjacent entries of items[0..nitems-1] are in strcmp order.
C2_TableSorted ==
    pc = "ready" =>
        \A i \in 1..(nitems - 1) : strcmp(items[i].key, items[i + 1].key) <= 0

\* C3 (as claimed): the key is read from the 4th pipe-delimited slot, so the
\* field "T1|x|y|GENE1|z,T2|a|b||c" with a table mapping GENE1 to ANNOT becomes
\* "T1|x|y|GENE1|z|ANNOT,T2|a|b||c|".
C3_KeyAtFourthSlot ==
    (Rewrote /\ rec_in = Csq(ArityField)
        /\ (\E k \in 1..Len(items) : items[k] = [key |-> Gene1, value |-> Annot]))
    => rec_out.val =
          << "T", "1", "|", "x", "|", "y", "|", "G", "E", "N", "E", "1", "|", "z", "|",
             "A", "N", "N", "O", "T", ",",
             "T", "2", "|", "a", "|", "b", "|", "|", "c", "|" >>

\* C3 (amended): the key of a transcript with at least five sub-fields is read
\* from its 5th pipe-delimited slot (index 4 from 0), so the field
\* "T1|x|y|GENE1|z,T2|a|b||c" with a table mapping GENE1 to ANNOT, where z and c
\* are no keys, becomes "T1|x|y|GENE1|z|,T2|a|b||c|".
C3_KeyAtFifthSlot ==
    Rewrote =>
        /\ \A i \in 1..Len(trace.tr) :
              LET f == Split(trace.tr[i].text, PIPE)
              IN Len(f) >= 5 => trace.tr[i].key = f[5]
        /\ (rec_in = Csq(ArityField)
              /\ (\E k \in 1..Len(items) : items[k] = [key |-> Gene1, value |-> Annot]))
           => rec_out.val =
                 << "T", "1", "|", "x", "|", "y", "|", "G", "E", "N", "E", "1", "|", "z",
                    "|", ",",
                    "T", "2", "|", "a", "|", "b", "|", "|", "c", "|" >>

C3_Witness ==
    /\ Rewrote
    /\ rec_in = Csq(ArityField)
    /\ \E k \in 1..Len(items) : items[k] = [key |-> Gene1, value |-> Annot]

\* C4: schema annotation: when init succeeds on a Description that holds the
\* marker "Format: " and ends with a quote, the Description becomes the old text
\* with the closing quote replaced by "|" + the new field name + quote; when the
\* Description holds no marker it is left as it was.
C4_SchemaAnnotation ==
    (pc = "ready" /\ out0.hrec /\ out0.has_desc) =>
        /\ (strstr(out0.val, Marker) > 0 /\ out0.val[Len(out0.val)] = QUOTE)
           => \E t \in Tags :
                 out.val = SubSeq(out0.val, 1, Len(out0.val) - 1)
                              \o <<PIPE>> \o t \o <<QUOTE>>
        /\ strstr(out0.val, Marker) = 0 => out.val = out0.val

C6_NoMatchPreservesStructure ==
    Rewrote =>
        LET ts == Split(rec_in.val, COMMA)
        IN /\ Len(trace.tr) = Len(ts)
           /\ rec_out.val = Concat([i \in 1..Len(ts) |-> Emitted(i)])
           /\ \A i \in 1..Len(ts) :
                 /\ trace.tr[i].text = ts[i]
                 /\ trace.tr[i].comma = (i < Len(ts))
                 /\ NoMatch(ts[i]) =>
                       /\ Emitted(i) = ts[i] \o <<PIPE>>
                                          \o (IF i < Len(ts) THEN <<COMMA>> ELSE <<>>)
                       /\ (Split(ts[i], PIPE)[5] = <<>> => ~trace.tr[i].searched)
           /\ (\A i \in 1..Len(ts) : NoMatch(ts[i])) =>
                 /\ rec_out.val = Join([i \in 1..Len(ts) |-> ts[i] \o <<PIPE>>], <<COMMA>>)
                 /\ Len(Split(rec_out.val, COMMA)) = Len(ts)

C6_Witness ==
    /\ Rewrote
    /\ Len(Split(rec_in.val, COMMA)) = 2
    /\ \A i \in 1..2 : NoMatch(Split(rec_in.val, COMMA)[i])
    /\ \E i \in 1..2 : Split(Split(rec_in.val, COMMA)[i], PIPE)[5] = <<>>
    /\ \E i \in 1..2 : Split(Split(rec_in.val, COMMA)[i], PIPE)[5] /= <<>>

\* C7: table load failure is fatal and detected before anything is changed: when
\* the mapping file cannot be opened or gives no row with a key and a value,
\* init returns -1 and the CSQ Description is what it was; init returns 0 only
\* when at least one row was loaded.
C7_TableLoadFailure ==
    pc /= "start" =>
        /\ (~file.exists \/ ValidRowCount(file) = 0)
           => pc = "failed" /\ out = out0 /\ nitems = 0
        /\ pc = "ready"
           => file.exists /\ nitems >= 1 /\ nitems = ValidRowCount(file)
                 /\ Len(items) = nitems

C7_Witness ==
    /\ pc = "failed"
    /\ file.exists /\ file.bytes /= <<>> /\ ValidRowCount(file) = 0
    /\ out0.hrec /\ out0.has_desc /\ strstr(out0.val, Marker) > 0

\* C8: no output-buffer overflow: the size process allocates, strlen(csq_str)
\* + 1024 * (number of transcripts), is greater than the number of characters
\* it appends to the output buffer.
C8_NoOverflow == (trace.called /\ trace.alloc > 0) => trace.alloc > trace.written

\* C9: a transcript with fewer than five pipe-delimited sub-fields is a
\* no-match whatever was processed before: only its text and the bare pipe are
\* appended, and no key is read or looked up for it.
C9_ShortTranscriptNoMatch ==
    Rewrote =>
        \A i \in 1..Len(trace.tr) :
            trace.tr[i].n < 5 =>
                /\ trace.tr[i].value = <<>>
                /\ ~trace.tr[i].searched
                /\ Emitted(i) = trace.tr[i].text \o <<PIPE>>
                                   \o (IF trace.tr[i].comma THEN <<COMMA>> ELSE <<>>)

\* C10: mapping-row parsing: parse_file gives one entry (first column, second
\* column) for each line that has both, in file order, and none for a line whose
\* key column or value column is missing or empty, such as a line that starts
\* with a tab; the count returned is the number of entries stored.
C10_RowParsing ==
    pc = "ready" =>
        /\ items = ColumnEntries(TextLines(file.bytes), 1)
        /\ nitems = Len(items)

====
